---- MODULE Spec2Model ----
(***************************************************************************)
(* The MDM server of be/main.py as a state machine: the device registry    *)
(* (enrolled_devices), the per-device command queues (pending_commands),   *)
(* the check-in and command handlers, the management API and the push      *)
(* call of send_command, which is the only await that suspends a handler   *)
(* after it has touched the state.  The handlers run on one asyncio event  *)
(* loop, so the code between two awaits of a handler is one atomic step.   *)
(***************************************************************************)
EXTENDS Integers, Sequences, FiniteSets, TLC

\* ------------------------------------------------------------------ bounds

\* Number of commands send_command may create (one uuid4 each).
MaxCmds == 2
\* Largest value of the logical clock read by datetime.utcnow().
MaxClock == 1
\* Number of send_command calls that may be suspended on their push at once.
MaxCalls == 1

\* ------------------------------------------------------------- input values

\* The udids requests may name: Fleet is every device of the model, Devices
\* the ones that act under Spec (SpecFleet lets all of Fleet act).
Fleet == {"d1", "d2"}
Devices == {"d1"}

\* Python's None, and the marker of a key that is absent from a dict.
NoneVal == "None"
Missing == "<missing>"

\* Bodies of the TokenUpdate messages: a complete one, one without Token and
\* UnlockToken, and one whose Token is the empty byte string.
TokenUpdateMsgs ==
    << [Token |-> <<171>>,  PushMagic |-> "magic-1", UnlockToken |-> <<205>>],
       [Token |-> NoneVal,  PushMagic |-> "magic-2", UnlockToken |-> NoneVal],
       [Token |-> <<>>,     PushMagic |-> "magic-2", UnlockToken |-> NoneVal] >>

\* MessageType values of a check-in message that are none of the three the
\* handler knows (NoneVal: the key is missing).
OtherMessageTypes == {"DeclarativeManagement", NoneVal}

\* Status values of a command exchange (NoneVal: no Status key).
Statuses == {NoneVal, "Acknowledged", "Error"}

\* str(uuid.uuid4()): the n-th value drawn is a string no other draw yields.
uuid4(n) == "uuid-" \o ToString(n)

\* The CommandUUIDs the server can issue, and the CommandUUID values a device
\* may report: any of them, an id the server never issued, or none.
UUIDs == {uuid4(n) : n \in 1..MaxCmds}
ReportedUUIDs == UUIDs \cup {"uuid-unknown", NoneVal}

\* Parameters of the lost-mode request.
LostMessage == "lost-msg"
LostPhone == "555-0100"

\* The command dict an endpoint builds for a RequestType.  The server never
\* reads it (it logs the RequestType and hands the dict to the device
\* unchanged), so every command carries the same opaque payload.
Payload(request_type) == "payload"

\* A command dict without the key "RequestType": POST .../command takes any
\* JSON object as the command.
NoRequestType == "no-RequestType"

\* The commands a caller of POST .../command submits.
ApiCommands == {Payload("any"), NoRequestType}

\* ---------------------------------------------------------------- variables

VARIABLES
    enrolled_devices,   \* dict udid -> device record
    pending_commands,   \* dict udid -> list of queued commands
    calls,              \* send_command calls suspended at await send_apns_notification
    next_uuid,          \* number of uuid4() values drawn so far
    now,                \* logical clock of datetime.utcnow()
    resp,               \* the last response a handler produced (status code and body)
    \* history variables (not program state)
    enqueued,           \* per device, the CommandUUIDs in the order send_command appended them
    delivered,          \* per device, the CommandUUIDs in the order mdm_command returned them
    acked,              \* CommandUUIDs resolved by a Status=Acknowledged report
    failed,             \* CommandUUIDs resolved by a Status=Error report
    lastIdle,           \* per device, the CommandUUID its last command exchange returned
    lastAuth            \* the device whose Authenticate the last response answered, or None
                        \* if that exchange carried no Status, else NoneVal

vars == <<enrolled_devices, pending_commands, calls, next_uuid, now, resp,
          enqueued, delivered, acked, failed, lastIdle, lastAuth>>

hist == <<enqueued, delivered, acked, failed, lastIdle>>

\* ------------------------------------------------------------------ helpers

HexDigits == <<"0","1","2","3","4","5","6","7","8","9","a","b","c","d","e","f">>

\* bytes.hex(): two lowercase hex digits per byte, as a string.
RECURSIVE Hex(_)
Hex(bytes) ==
    IF bytes = <<>> THEN ""
    ELSE HexDigits[(bytes[1] \div 16) + 1] \o HexDigits[(bytes[1] % 16) + 1]
         \o Hex(Tail(bytes))

\* `x.hex() if x else None`: None and the empty byte string are both falsy.
HexOrNone(x) == IF x = NoneVal \/ x = <<>> THEN NoneVal ELSE Hex(x)

\* dict operations
DictSet(dict, key, val) == (key :> val) @@ dict
DictDel(dict, key) == [k \in DOMAIN dict \ {key} |-> dict[k]]

\* The record TokenUpdate stores; it carries no lost_mode_message/_phone key.
NewDevice(udid, msg, t) ==
    [ udid              |-> udid,
      token             |-> HexOrNone(msg.Token),
      push_magic        |-> msg.PushMagic,
      unlock_token      |-> HexOrNone(msg.UnlockToken),
      enrolled_at       |-> t,
      last_seen         |-> t,
      lost_mode_enabled |-> FALSE,
      lost_mode_message |-> Missing,
      lost_mode_phone   |-> Missing ]

\* Response(status_code=...) with an empty body, and HTTPException(status_code=...).
EmptyBody == [kind |-> "empty"]
Reply(code) == [code |-> code, body |-> EmptyBody]

\* The commands a device holds unresolved: returned to it by a command
\* exchange and not yet reported back with Status Acknowledged or Error.
InFlight(d) == {delivered[d][i] : i \in 1..Len(delivered[d])} \ (acked \cup failed)

\* ---------------------------------------------------------------- initial state

Init ==
    /\ enrolled_devices = << >>
    /\ pending_commands = << >>
    /\ calls = {}
    /\ next_uuid = 0
    /\ now = 0
    /\ resp = Reply(200)
    /\ enqueued = [d \in Fleet |-> <<>>]
    /\ delivered = [d \in Fleet |-> <<>>]
    /\ acked = {}
    /\ failed = {}
    /\ lastIdle = [d \in Fleet |-> NoneVal]
    /\ lastAuth = NoneVal

\* --------------------------------------------------------- check-in channel

\* An Authenticate that starts the enrollment over by dropping the entry.
AuthenticateStartsOver(udid) ==
    /\ enrolled_devices' = [k \in DOMAIN enrolled_devices \ {udid} |-> enrolled_devices[k]]
    /\ resp' = Reply(200)
    /\ lastAuth' = udid
    /\ UNCHANGED <<pending_commands, calls, next_uuid, now, hist>>

\* mdm_checkin, MessageType == "Authenticate": logged and acknowledged.
Authenticate(udid) ==
    /\ resp' = Reply(200)
    /\ lastAuth' = udid
    /\ UNCHANGED <<enrolled_devices, pending_commands, calls, next_uuid, now, hist>>

\* mdm_checkin, MessageType == "TokenUpdate": the registry entry is replaced
\* by a freshly built record.
TokenUpdate(udid, msg) ==
    /\ enrolled_devices' = DictSet(enrolled_devices, udid, NewDevice(udid, msg, now))
    /\ resp' = Reply(200)
    /\ lastAuth' = NoneVal
    /\ UNCHANGED <<pending_commands, calls, next_uuid, now, hist>>

\* mdm_checkin, MessageType == "CheckOut": the registry entry is deleted;
\* pending_commands is not touched.
CheckOut(udid) ==
    /\ enrolled_devices' = IF udid \in DOMAIN enrolled_devices
                           THEN DictDel(enrolled_devices, udid)
                           ELSE enrolled_devices
    /\ resp' = Reply(200)
    /\ lastAuth' = NoneVal
    /\ UNCHANGED <<pending_commands, calls, next_uuid, now, hist>>

\* An unknown MessageType handled by the CheckOut branch.
OtherCheckinChecksOut(udid, message_type) == CheckOut(udid)

\* mdm_checkin, any other MessageType: 400.
OtherCheckin(udid, message_type) ==
    /\ resp' = Reply(400)
    /\ lastAuth' = NoneVal
    /\ UNCHANGED <<enrolled_devices, pending_commands, calls, next_uuid, now, hist>>

\* ---------------------------------------------------------- command channel

\* A touch that stamps every entry of the registry.
TouchLastSeenAll(devs, udid, t) ==
    [k \in DOMAIN devs |-> [devs[k] EXCEPT !.last_seen = t]]

\* enrolled_devices[udid]["last_seen"] = datetime.utcnow().isoformat(), done
\* only for a udid that is in the registry.
TouchLastSeen(devs, udid, t) ==
    IF udid \in DOMAIN devs
    THEN [devs EXCEPT ![udid].last_seen = t]
    ELSE devs

\* A test that finds nothing to deliver while a push for the device is awaited.
HasPendingAfterPush(queues, udid) ==
    /\ udid \in DOMAIN queues
    /\ queues[udid] # <<>>
    /\ \A c \in calls : c.udid # udid

\* `udid in pending_commands and pending_commands[udid]`
HasPending(queues, udid) ==
    /\ udid \in DOMAIN queues
    /\ queues[udid] # <<>>

\* A read of the head that leaves it in the list.
ListPeek0(q) == [item |-> Head(q), rest |-> q]

\* list.pop(): the last element is removed instead of the first.
ListPopLast(q) == [item |-> q[Len(q)], rest |-> SubSeq(q, 1, Len(q) - 1)]

\* list.pop(0): the element removed and the list left behind.
ListPop0(q) == [item |-> Head(q), rest |-> Tail(q)]

\* create_plist_response(command): the command is the body of the response.
CommandBody(command) == [kind |-> "command", command |-> command]

\* A report of Error that puts the failed command back at the end of the queue.
ReportRequeuesFailed(queues, udid, status, command_uuid) ==
    IF status = "Error" /\ command_uuid \in InFlight(udid)
    THEN DictSet(queues, udid,
                 Append(IF udid \in DOMAIN queues THEN queues[udid] ELSE <<>>,
                        [CommandUUID |-> command_uuid, Command |-> Payload("retry")]))
    ELSE queues

\* "Process command response": status and command_uuid of the report are
\* logged and nothing else; the queues come out as they went in.
ProcessReport(queues, udid, status, command_uuid) == queues

\* mdm_command: touch last_seen, log the reported Status (nothing is stored
\* and the queue is not consulted), then pop and return the head of the
\* device's queue if there is one.  The log line after the pop subscripts
\* command['Command']['RequestType']: for a command without that key it
\* raises KeyError, the exchange is answered 500 and the popped command is
\* gone.
MdmCommand(udid, status, command_uuid) ==
    LET queues == ProcessReport(pending_commands, udid, status, command_uuid)
        has == HasPending(queues, udid)
        popped == ListPop0(queues[udid])
        raises == has /\ popped.item.Command = NoRequestType
        sends == has /\ ~raises
        out == IF sends THEN popped.item.CommandUUID ELSE NoneVal
        resolves == status \in {"Acknowledged", "Error"} /\ command_uuid \in InFlight(udid)
    IN  /\ enrolled_devices' = TouchLastSeen(enrolled_devices, udid, now)
        /\ pending_commands' = IF has
                               THEN [queues EXCEPT ![udid] = popped.rest]
                               ELSE queues
        /\ lastAuth' = NoneVal
        /\ resp' = IF raises
                   THEN Reply(500)
                   ELSE [code |-> 200,
                         body |-> IF has THEN CommandBody(popped.item) ELSE EmptyBody]
        /\ acked' = IF resolves /\ status = "Acknowledged"
                    THEN acked \cup {command_uuid} ELSE acked
        /\ failed' = IF resolves /\ status = "Error"
                     THEN failed \cup {command_uuid} ELSE failed
        /\ delivered' = IF sends
                        THEN [delivered EXCEPT ![udid] = Append(@, out)]
                        ELSE delivered
        /\ lastIdle' = [lastIdle EXCEPT ![udid] = IF status = NoneVal THEN out ELSE NoneVal]
        /\ UNCHANGED <<calls, next_uuid, now, enqueued>>

\* ----------------------------------------------------------- management API

\* The registry test left out: no request is turned away.
NotEnrolledSkipped(devs, udid) == FALSE

\* `udid not in enrolled_devices`, the test that raises HTTPException(404).
NotEnrolled(devs, udid) == udid \notin DOMAIN devs

\* list.append(x)
ListAppend(q, x) == Append(q, x)

\* send_command(udid, command) up to its await, called on the registry `devs`
\* its caller has produced so far; the handler then stays suspended, and no
\* response exists yet.  `returns` is what the caller does with the result
\* once the call returns: every endpoint hands it on ("result") except
\* unenroll_device ("unenrollment_initiated").  A subscript of a dict with a
\* missing key raises KeyError, which the framework answers with 500.
SendCommand(returns, udid, command, devs) ==
    IF NotEnrolled(devs, udid)
    THEN /\ resp' = Reply(404)
         /\ lastAuth' = NoneVal
         /\ enrolled_devices' = devs
         /\ UNCHANGED <<pending_commands, calls, next_uuid, now, hist>>
    ELSE IF udid \notin DOMAIN devs
    THEN /\ resp' = Reply(500)
         /\ lastAuth' = NoneVal
         /\ enrolled_devices' = devs
         /\ UNCHANGED <<pending_commands, calls, next_uuid, now, hist>>
    ELSE LET device == devs[udid]
             command_uuid == uuid4(next_uuid + 1)
             mdm_command == [CommandUUID |-> command_uuid, Command |-> command]
             queue == IF udid \in DOMAIN pending_commands
                      THEN pending_commands[udid] ELSE <<>>
         IN  /\ next_uuid < MaxCmds
             /\ Cardinality(calls) < MaxCalls
             /\ next_uuid' = next_uuid + 1
             /\ enrolled_devices' = devs
             /\ pending_commands' = DictSet(pending_commands, udid,
                                            ListAppend(queue, mdm_command))
             /\ calls' = calls \cup {[returns |-> returns, udid |-> udid,
                                      command_uuid |-> command_uuid,
                                      token |-> device.token,
                                      push_magic |-> device.push_magic]}
             /\ enqueued' = [enqueued EXCEPT ![udid] = Append(@, command_uuid)]
             /\ UNCHANGED <<now, resp, lastAuth, delivered, acked, failed, lastIdle>>

\* POST /api/devices/{udid}/command
SendCommandApi(udid) ==
    \E command \in ApiCommands : SendCommand("result", udid, command, enrolled_devices)

\* POST /api/devices/{udid}/device-info
RequestDeviceInfo(udid) ==
    SendCommand("result", udid, Payload("DeviceInformation"), enrolled_devices)

\* POST /api/devices/{udid}/install-profile
InstallProfile(udid) ==
    SendCommand("result", udid, Payload("InstallProfile"), enrolled_devices)

\* POST /api/devices/{udid}/device-lock
DeviceLock(udid) ==
    SendCommand("result", udid, Payload("DeviceLock"), enrolled_devices)

\* POST /api/devices/{udid}/lost-mode/enable
EnableLostMode(udid) ==
    IF NotEnrolled(enrolled_devices, udid)
    THEN /\ resp' = Reply(404)
         /\ lastAuth' = NoneVal
         /\ UNCHANGED <<enrolled_devices, pending_commands, calls, next_uuid, now, hist>>
    ELSE IF udid \notin DOMAIN enrolled_devices
    THEN /\ resp' = Reply(500)
         /\ lastAuth' = NoneVal
         /\ UNCHANGED <<enrolled_devices, pending_commands, calls, next_uuid, now, hist>>
    ELSE SendCommand("result", udid, Payload("EnableLostMode"),
                     [enrolled_devices EXCEPT ![udid].lost_mode_enabled = TRUE,
                                              ![udid].lost_mode_message = LostMessage,
                                              ![udid].lost_mode_phone = LostPhone])

\* A disable that clears the flag and leaves message and phone in the entry.
DisableLostModeKeepsMessage(udid) ==
    IF NotEnrolled(enrolled_devices, udid)
    THEN /\ resp' = Reply(404)
         /\ lastAuth' = NoneVal
         /\ UNCHANGED <<enrolled_devices, pending_commands, calls, next_uuid, now, hist>>
    ELSE IF ~enrolled_devices[udid].lost_mode_enabled
    THEN /\ resp' = Reply(400)
         /\ lastAuth' = NoneVal
         /\ UNCHANGED <<enrolled_devices, pending_commands, calls, next_uuid, now, hist>>
    ELSE SendCommand("result", udid, Payload("DisableLostMode"),
                     [enrolled_devices EXCEPT ![udid].lost_mode_enabled = FALSE])

\* POST /api/devices/{udid}/lost-mode/disable
DisableLostMode(udid) ==
    IF NotEnrolled(enrolled_devices, udid)
    THEN /\ resp' = Reply(404)
         /\ lastAuth' = NoneVal
         /\ UNCHANGED <<enrolled_devices, pending_commands, calls, next_uuid, now, hist>>
    ELSE IF udid \notin DOMAIN enrolled_devices
    THEN /\ resp' = Reply(500)
         /\ lastAuth' = NoneVal
         /\ UNCHANGED <<enrolled_devices, pending_commands, calls, next_uuid, now, hist>>
    ELSE IF ~enrolled_devices[udid].lost_mode_enabled
    THEN /\ resp' = Reply(400)
         /\ lastAuth' = NoneVal
         /\ UNCHANGED <<enrolled_devices, pending_commands, calls, next_uuid, now, hist>>
    ELSE SendCommand("result", udid, Payload("DisableLostMode"),
                     [enrolled_devices EXCEPT ![udid].lost_mode_enabled = FALSE,
                                              ![udid].lost_mode_message = Missing,
                                              ![udid].lost_mode_phone = Missing])

\* GET /api/devices/{udid}/lost-mode/location
GetLostModeLocation(udid) ==
    IF NotEnrolled(enrolled_devices, udid)
    THEN /\ resp' = Reply(404)
         /\ lastAuth' = NoneVal
         /\ UNCHANGED <<enrolled_devices, pending_commands, calls, next_uuid, now, hist>>
    ELSE SendCommand("result", udid, Payload("DeviceLocation"),
                     enrolled_devices)

\* POST /api/devices/{udid}/lost-mode/play-sound
PlayLostModeSound(udid) ==
    IF NotEnrolled(enrolled_devices, udid)
    THEN /\ resp' = Reply(404)
         /\ lastAuth' = NoneVal
         /\ UNCHANGED <<enrolled_devices, pending_commands, calls, next_uuid, now, hist>>
    ELSE SendCommand("result", udid, Payload("PlayLostModeSound"),
                     enrolled_devices)

\* An unenrollment that deletes the registry entry and the queue on the spot.
UnenrollDeviceRemoves(udid) ==
    /\ enrolled_devices' = [k \in DOMAIN enrolled_devices \ {udid} |-> enrolled_devices[k]]
    /\ pending_commands' = [k \in DOMAIN pending_commands \ {udid} |-> pending_commands[k]]
    /\ resp' = [code |-> 200, body |-> [kind |-> "unenrollment_initiated"]]
    /\ lastAuth' = NoneVal
    /\ UNCHANGED <<calls, next_uuid, now, hist>>

\* DELETE /api/devices/{udid}: queues a RemoveProfile command; the registry
\* entry and the queue stay.
UnenrollDevice(udid) ==
    IF NotEnrolled(enrolled_devices, udid)
    THEN /\ resp' = Reply(404)
         /\ lastAuth' = NoneVal
         /\ UNCHANGED <<enrolled_devices, pending_commands, calls, next_uuid, now, hist>>
    ELSE SendCommand("unenrollment_initiated", udid, Payload("RemoveProfile"), enrolled_devices)

\* The values send_apns_notification can return for a token: every failure
\* and every exception ends in False, and with token None the success branch
\* itself raises (token[:10]) and ends in False.
PushOutcomes(token) == IF token = NoneVal THEN {FALSE} ELSE {TRUE, FALSE}

\* The body the endpoint returns once its send_command call has returned.
QueuedBody(call, push_result) ==
    IF call.returns = "unenrollment_initiated"
    THEN [kind |-> "unenrollment_initiated"]
    ELSE [kind |-> "queued", command_uuid |-> call.command_uuid, apns_sent |-> push_result]

\* A return that takes the command back out of the queue when the push failed.
PushReturnRollsBack(call, push_result) ==
    /\ call \in calls
    /\ push_result \in PushOutcomes(call.token)
    /\ calls' = calls \ {call}
    /\ lastAuth' = NoneVal
    /\ resp' = [code |-> 200, body |-> QueuedBody(call, push_result)]
    /\ pending_commands' =
          IF push_result \/ call.udid \notin DOMAIN pending_commands
          THEN pending_commands
          ELSE [pending_commands EXCEPT ![call.udid] =
                   SelectSeq(@, LAMBDA c : c.CommandUUID # call.command_uuid)]
    /\ UNCHANGED <<enrolled_devices, next_uuid, now, hist>>

\* send_apns_notification returns to a suspended send_command, which returns
\* its result; no state of the registry or of a queue is read or written.
PushReturn(call, push_result) ==
    /\ call \in calls
    /\ push_result \in PushOutcomes(call.token)
    /\ calls' = calls \ {call}
    /\ lastAuth' = NoneVal
    /\ resp' = [code |-> 200, body |-> QueuedBody(call, push_result)]
    /\ UNCHANGED <<enrolled_devices, pending_commands, next_uuid, now, hist>>

\* Time passes between two handler steps.
Tick ==
    /\ now < MaxClock
    /\ now' = now + 1
    /\ UNCHANGED <<enrolled_devices, pending_commands, calls, next_uuid, resp, lastAuth, hist>>

\* ------------------------------------------------------------ specification

\* Every request that names device d.
Request(d) ==
    \/ Authenticate(d)
    \/ \E i \in DOMAIN TokenUpdateMsgs : TokenUpdate(d, TokenUpdateMsgs[i])
    \/ CheckOut(d)
    \/ \E t \in OtherMessageTypes : OtherCheckin(d, t)
    \/ MdmCommand(d, NoneVal, NoneVal)
    \/ \E s \in Statuses \ {NoneVal}, u \in ReportedUUIDs : MdmCommand(d, s, u)
    \/ SendCommandApi(d)
    \/ RequestDeviceInfo(d)
    \/ InstallProfile(d)
    \/ DeviceLock(d)
    \/ EnableLostMode(d)
    \/ DisableLostMode(d)
    \/ GetLostModeLocation(d)
    \/ PlayLostModeSound(d)
    \/ UnenrollDevice(d)

Next ==
    \/ \E d \in Devices : Request(d)
    \/ \E c \in calls, r \in BOOLEAN : PushReturn(c, r)
    \/ Tick

Spec == Init /\ [][Next]_vars

\* The same server with every device of Fleet sending requests.
NextFleet ==
    \/ \E d \in Fleet : Request(d)
    \/ \E c \in calls, r \in BOOLEAN : PushReturn(c, r)
    \/ Tick

SpecFleet == Init /\ [][NextFleet]_vars

\* A device that keeps opening command exchanges and acknowledges every
\* command it receives: its next exchange reports Acknowledged for the
\* command it holds, or carries no Status when it holds none.
DeviceExchange(d) ==
    /\ d \in DOMAIN enrolled_devices
    /\ IF InFlight(d) = {}
       THEN MdmCommand(d, NoneVal, NoneVal)
       ELSE \E u \in InFlight(d) : MdmCommand(d, "Acknowledged", u)

\* The requests of a device that is never checked out and behaves as above.
LiveRequest(d) ==
    \/ Authenticate(d)
    \/ \E i \in DOMAIN TokenUpdateMsgs : TokenUpdate(d, TokenUpdateMsgs[i])
    \/ \E t \in OtherMessageTypes : OtherCheckin(d, t)
    \/ DeviceExchange(d)
    \/ SendCommandApi(d)
    \/ RequestDeviceInfo(d)
    \/ InstallProfile(d)
    \/ DeviceLock(d)
    \/ EnableLostMode(d)
    \/ DisableLostMode(d)
    \/ GetLostModeLocation(d)
    \/ PlayLostModeSound(d)
    \/ UnenrollDevice(d)

NextLive ==
    \/ \E d \in Devices : LiveRequest(d)
    \/ \E c \in calls, r \in BOOLEAN : PushReturn(c, r)
    \/ Tick

SpecLive ==
    /\ Init
    /\ [][NextLive]_vars
    /\ \A d \in Devices : WF_vars(DeviceExchange(d))

\* ------------------------------------------------------------------ claims

Range(q) == {q[i] : i \in 1..Len(q)}

Registered(d) == d \in DOMAIN enrolled_devices

\* The queue of d, empty when pending_commands has no key d.
QueueOf(d) == IF d \in DOMAIN pending_commands THEN pending_commands[d] ELSE <<>>

\* C1: for every device, at most one command is in flight (handed out by a
\* command exchange and not yet resolved) in every reachable state.
C1_AtMostOneInFlight ==
    \A d \in Fleet : Cardinality(InFlight(d)) <= 1

\* q with every repeated occurrence of an element removed.
RECURSIVE FirstOccurrences(_)
FirstOccurrences(q) ==
    IF q = <<>> THEN <<>>
    ELSE LET front == FirstOccurrences(SubSeq(q, 1, Len(q) - 1))
         IN  IF q[Len(q)] \in Range(front) THEN front ELSE Append(front, q[Len(q)])

\* The elements of p occur in q, in the order they have in p.
InOrderOf(p, q) ==
    \A i, j \in 1..Len(p) :
        i < j => \E k, l \in 1..Len(q) : k < l /\ q[k] = p[i] /\ q[l] = p[j]

\* C2: the order in which the distinct commands of a device are first returned
\* by mdm_command is the order in which send_command enqueued them: a command
\* enqueued later is never returned before one enqueued earlier.
C2_FifoDelivery ==
    \A d \in Fleet :
        /\ Range(delivered[d]) \subseteq Range(enqueued[d])
        /\ InOrderOf(FirstOccurrences(delivered[d]), enqueued[d])

\* Two commands were delivered to a device, a third step having enqueued the
\* second one after the first was already handed out.
C2_Witness ==
    \E d \in Fleet : Len(delivered[d]) >= 2

\* C3: a command exchange without Status that follows an exchange without
\* Status of the same device returns the command that exchange returned, and
\* leaves the pending queue as it is.
C3_IdleRedelivery ==
    [][\A d \in Fleet :
          (lastIdle[d] # NoneVal /\ MdmCommand(d, NoneVal, NoneVal))
          => /\ resp'.body.kind = "command"
             /\ resp'.body.command.CommandUUID = lastIdle[d]
             /\ pending_commands' = pending_commands]_vars

\* C4: a command exchange that reports Acknowledged or Error with a
\* CommandUUID that is not in flight for the device resolves nothing: what is
\* in flight stays in flight and the pending queue is unchanged.
C4_StaleReportIgnored ==
    [][\A d \in Fleet, s \in Statuses \ {NoneVal}, u \in ReportedUUIDs :
          (InFlight(d) # {} /\ u \notin InFlight(d) /\ MdmCommand(d, s, u))
          => /\ InFlight(d)' = InFlight(d)
             /\ pending_commands' = pending_commands]_vars

\* C5: a device that is not in the registry has no queued commands.
C5_NoQueueWithoutDevice ==
    \A d \in Fleet : ~Registered(d) => QueueOf(d) = <<>>

\* C6: a command exchange for a device that is not in the registry (in this
\* server: one that was checked out and has sent no TokenUpdate since, or one
\* that never enrolled) returns no command and changes neither the registry
\* nor a queue.
C6_CheckedOutIsUnknown ==
    [][\A d \in Fleet, s \in Statuses, u \in ReportedUUIDs :
          (~Registered(d) /\ MdmCommand(d, s, u))
          => /\ resp'.body = EmptyBody
             /\ UNCHANGED <<enrolled_devices, pending_commands>>]_vars

\* A command submission of the management API that names device d.
Submission(d) ==
    \/ SendCommandApi(d)
    \/ RequestDeviceInfo(d)
    \/ InstallProfile(d)
    \/ DeviceLock(d)
    \/ EnableLostMode(d)
    \/ DisableLostMode(d)
    \/ GetLostModeLocation(d)
    \/ PlayLostModeSound(d)

\* C7: a command submission for a udid that is not in the registry is answered
\* 404, appends no command, leaves the registry as it is and issues no push.
C7_UnknownDeviceRejected ==
    [][\A d \in Fleet :
          (~Registered(d) /\ Submission(d))
          => /\ resp'.code = 404
             /\ UNCHANGED <<enrolled_devices, pending_commands, calls, next_uuid, enqueued>>]_vars

\* A submission was rejected for a device that is out of the registry while
\* its queue still exists.
C7_Witness ==
    /\ resp.code = 404
    /\ \E d \in Devices : ~Registered(d) /\ d \in DOMAIN pending_commands

\* C8: for a device that is never checked out, keeps opening exchanges and
\* acknowledges what it receives, every enqueued command is eventually
\* Acknowledged, no command is handed out twice, and once every enqueued
\* command is acknowledged the queue is empty and an exchange returns the
\* empty response.
C8_AllAcknowledgedOnce ==
    /\ \A d \in Devices, u \in UUIDs :
          (u \in Range(enqueued[d])) ~> (u \in acked)
    /\ [](\A d \in Devices :
             /\ Len(delivered[d]) = Cardinality(Range(delivered[d]))
             /\ Range(enqueued[d]) \subseteq acked => QueueOf(d) = <<>>)
    /\ [][\A d \in Devices :
             (Range(enqueued[d]) \subseteq acked /\ DeviceExchange(d))
             => resp'.body = EmptyBody]_vars

\* C9: a TokenUpdate for a device that is in the registry keeps its
\* enrolled_at, its lost-mode flag and its lost-mode message and phone.
C9_TokenUpdateKeepsEnrollment ==
    [][\A d \in Fleet, i \in DOMAIN TokenUpdateMsgs :
          (Registered(d) /\ TokenUpdate(d, TokenUpdateMsgs[i]))
          => /\ enrolled_devices'[d].enrolled_at = enrolled_devices[d].enrolled_at
             /\ enrolled_devices'[d].lost_mode_enabled = enrolled_devices[d].lost_mode_enabled
             /\ enrolled_devices'[d].lost_mode_message = enrolled_devices[d].lost_mode_message
             /\ enrolled_devices'[d].lost_mode_phone = enrolled_devices[d].lost_mode_phone]_vars

\* C10: every device in the registry has a push token, and no push is issued
\* with no token.
C10_RegisteredHasToken ==
    /\ \A d \in DOMAIN enrolled_devices : enrolled_devices[d].token # NoneVal
    /\ \A c \in calls : c.token # NoneVal

\* The CommandUUIDs in the queue of d, in queue order.
QueuedUUIDs(d) == [i \in 1..Len(QueueOf(d)) |-> QueueOf(d)[i].CommandUUID]

\* C11: when the push of a command submission fails, the submission is
\* answered 200 "queued" with apns_sent false, the registry and every queue
\* are exactly as a successful push leaves them (untouched, the command at
\* its place), and no new push is issued.
C11_PushFailureKeepsCommand ==
    [][\A c \in calls, r \in BOOLEAN :
          PushReturn(c, r)
          => /\ UNCHANGED <<enrolled_devices, pending_commands, next_uuid, enqueued>>
             /\ calls' = calls \ {c}
             /\ resp'.code = 200
             /\ c.returns = "result"
                => /\ resp'.body.kind = "queued"
                   /\ resp'.body.command_uuid = c.command_uuid
                   /\ resp'.body.apns_sent = r]_vars

\* A failed push has been reported and the command it was for is still queued.
C11_Witness ==
    /\ resp.body.kind = "queued"
    /\ ~resp.body.apns_sent
    /\ calls = {}
    /\ \E d \in Fleet : resp.body.command_uuid \in Range(QueuedUUIDs(d))

\* C12: a check-in message with any other MessageType, or none, is answered
\* 400 and changes neither the registry nor a queue.
C12_OtherMessageRejected ==
    [][\A d \in Fleet, t \in OtherMessageTypes :
          OtherCheckin(d, t)
          => /\ resp'.code = 400
             /\ UNCHANGED <<enrolled_devices, pending_commands, calls, next_uuid>>]_vars

\* A 400 with no device in the registry (so it answers no lost-mode request)
\* and a queue left behind: an unknown message was rejected.
C12_Witness ==
    /\ resp.code = 400
    /\ DOMAIN enrolled_devices = {}
    /\ \E d \in Fleet : QueueOf(d) # <<>>

\* C13: an Authenticate message is accepted whatever the state of the device
\* and of the server, is answered 200, and changes neither the registry (no
\* entry removed, no token or lost-mode field altered) nor a queue, so that
\* repeating it has the effect of sending it once.
C13_AuthenticateAcknowledged ==
    /\ [](\A d \in Fleet : ENABLED Authenticate(d))
    /\ [][\A d \in Fleet :
             Authenticate(d)
             => /\ resp' = Reply(200)
                /\ UNCHANGED <<enrolled_devices, pending_commands, calls, next_uuid>>]_vars

\* The last response answered the Authenticate of a device that is in the
\* registry with lost mode on and a command waiting.
C13_Witness ==
    \E d \in Fleet :
        /\ lastAuth = d
        /\ Registered(d)
        /\ enrolled_devices[d].lost_mode_enabled
        /\ QueueOf(d) # <<>>

C15_InboundTouchesLastSeen ==
    [][\A d \in Fleet :
          (/\ Registered(d)
           /\ \/ Authenticate(d)
              \/ \E i \in DOMAIN TokenUpdateMsgs : TokenUpdate(d, TokenUpdateMsgs[i])
              \/ \E s \in Statuses, u \in ReportedUUIDs : MdmCommand(d, s, u))
          => /\ d \in DOMAIN enrolled_devices'
             /\ enrolled_devices'[d].last_seen = now]_vars

\* The registry entry and the queue of b are the same after the step as before.
SameDevice(b) ==
    /\ (b \in DOMAIN enrolled_devices') = (b \in DOMAIN enrolled_devices)
    /\ b \in DOMAIN enrolled_devices => enrolled_devices'[b] = enrolled_devices[b]
    /\ (b \in DOMAIN pending_commands') = (b \in DOMAIN pending_commands)
    /\ b \in DOMAIN pending_commands => pending_commands'[b] = pending_commands[b]

\* C16: every request addressed to a device a (check-in message, command
\* exchange, management request, whether it succeeds or is rejected) and
\* every return of a push made for a, successful or failed, leaves the
\* registry entry and the queue of every other device b as they were.
C16_OtherDevicesUntouched ==
    [][\A a \in Fleet : \A b \in Fleet \ {a} :
          \/ SameDevice(b)
          \/ ~ \/ Request(a)
               \/ \E c \in calls, r \in BOOLEAN : c.udid = a /\ PushReturn(c, r)]_vars

\* Two devices in the registry, one with lost mode on and a command waiting,
\* the other just served the head of its queue.
C16_Witness ==
    \E a \in Fleet : \E b \in Fleet \ {a} :
        /\ Registered(a) /\ Registered(b)
        /\ enrolled_devices[b].lost_mode_enabled
        /\ QueueOf(b) # <<>>
        /\ resp.body.kind = "command"
        /\ delivered[a] # <<>>
        /\ resp.body.command.CommandUUID = delivered[a][Len(delivered[a])]

\* C17: a command reported with Status Error is failed from then on and no
\* later command exchange returns it: it is not in a queue, it was handed out
\* once, and the response that answers the report, like every response after
\* it, carries another command or none.
C17_ErrorIsTerminal ==
    /\ [](\A d \in Fleet, u \in failed :
             /\ u \notin Range(QueuedUUIDs(d))
             /\ Cardinality({i \in 1..Len(delivered[d]) : delivered[d][i] = u}) <= 1)
    /\ [](resp.body.kind = "command" => resp.body.command.CommandUUID \notin failed)
    /\ [][failed \subseteq failed']_vars

\* A command has failed and a later exchange of its device has returned the
\* next command.
C17_Witness ==
    \E d \in Fleet :
        \E i \in 1..Len(delivered[d]) :
            /\ delivered[d][i] \in failed
            /\ i < Len(delivered[d])
            /\ resp.body.kind = "command"
            /\ resp.body.command.CommandUUID = delivered[d][Len(delivered[d])]

\* C18: touch, resolution and dequeue of a command exchange are one step:
\* whenever the queue of a device loses an element, it is the head of the
\* queue as the previous step left it, and that same step stamps last_seen
\* and answers with that element (or with 500 when the element cannot be
\* sent); hence, however exchanges and other requests interleave, no command
\* is handed out twice and none is handed out while still queued.
C18_ExchangeIsOneStep ==
    /\ [](\A d \in Fleet :
             LET all == delivered[d] \o QueuedUUIDs(d)
             IN  \A i, j \in 1..Len(all) : all[i] = all[j] => i = j)
    /\ [][\A d \in Fleet :
             (\/ delivered'[d] # delivered[d]
              \/ d \in DOMAIN pending_commands /\ pending_commands'[d] # pending_commands[d]
                                               /\ enqueued'[d] = enqueued[d])
             => /\ QueueOf(d) # <<>>
                /\ pending_commands'[d] = Tail(QueueOf(d))
                /\ Registered(d) => enrolled_devices'[d].last_seen = now
                /\ IF Head(QueueOf(d)).Command = NoRequestType
                   THEN resp' = Reply(500) /\ delivered'[d] = delivered[d]
                   ELSE /\ resp' = [code |-> 200, body |-> CommandBody(Head(QueueOf(d)))]
                        /\ delivered'[d] = Append(delivered[d], Head(QueueOf(d)).CommandUUID)
                /\ \E s \in Statuses, u \in ReportedUUIDs : MdmCommand(d, s, u)]_vars

\* Two exchanges of a registered device have emptied a queue of two commands,
\* the second at the current time.
C18_Witness ==
    \E d \in Fleet :
        /\ Registered(d)
        /\ Len(enqueued[d]) >= 2
        /\ delivered[d] = enqueued[d]
        /\ enrolled_devices[d].last_seen = now
        /\ resp.body.kind = "command"
        /\ resp.body.command.CommandUUID = enqueued[d][Len(enqueued[d])]

\* C19: while the push of a submission is awaited, the check-in messages and
\* the command exchange of the same device are accepted, an exchange hands
\* out the very command the push is for when it is a sendable command at
\* the head of the queue, and CheckOut can remove the device;
\* the return of the push then only produces the answer: registry, queues and
\* command histories are not rolled back or written again.
C19_PushDoesNotBlock ==
    /\ [](\A c \in calls :
             /\ ENABLED Authenticate(c.udid)
             /\ ENABLED CheckOut(c.udid)
             /\ \A i \in DOMAIN TokenUpdateMsgs :
                   ENABLED TokenUpdate(c.udid, TokenUpdateMsgs[i])
             /\ ENABLED MdmCommand(c.udid, NoneVal, NoneVal)
             /\ (/\ QueueOf(c.udid) # <<>>
                 /\ Head(QueueOf(c.udid)).CommandUUID = c.command_uuid
                 /\ Head(QueueOf(c.udid)).Command # NoRequestType)
                => ENABLED (/\ MdmCommand(c.udid, NoneVal, NoneVal)
                            /\ resp'.body.kind = "command"
                            /\ resp'.body.command.CommandUUID = c.command_uuid))
    /\ [][\A c \in calls, r \in BOOLEAN :
             PushReturn(c, r)
             => /\ UNCHANGED <<enrolled_devices, pending_commands, hist>>
                /\ calls' \subseteq calls]_vars

\* A push is still awaited although its command has already been handed to
\* the device and the device has since checked out.
C19_Witness ==
    \E c \in calls :
        /\ c.command_uuid \in Range(delivered[c.udid])
        /\ ~Registered(c.udid)

\* C20: in every reachable state, an entry of the registry carries a lost-mode
\* message or phone only if its lost_mode_enabled is true.
C20_LostModeDataOnlyWhenEnabled ==
    \A d \in DOMAIN enrolled_devices :
        (\/ enrolled_devices[d].lost_mode_message # Missing
         \/ enrolled_devices[d].lost_mode_phone # Missing)
        => enrolled_devices[d].lost_mode_enabled

\* An entry of the registry carries a lost-mode message and phone, with the
\* flag on and the EnableLostMode command waiting in the queue.
C20_Witness ==
    \E d \in DOMAIN enrolled_devices :
        /\ enrolled_devices[d].lost_mode_message = LostMessage
        /\ enrolled_devices[d].lost_mode_phone = LostPhone
        /\ enrolled_devices[d].lost_mode_enabled
        /\ QueueOf(d) # <<>>
        /\ calls = {}

====
